---- MODULE Spec2Model ----
(***************************************************************************)
(* The alignment matrix control of the block editor: the value/id codec    *)
(* of packages/components/src/alignment-matrix-control/utils.tsx           *)
(* (normalize, getItemId, getItemValue, getAlignmentIndex) and the         *)
(* AlignmentMatrixControl component that wires it to a composite store.    *)
(*                                                                         *)
(* JavaScript values are modelled as tuples: undefined is <<>>, null is    *)
(* <<"null", "">> and a string s (or a number n) is <<s>> (<<n>>).         *)
(* Strings are TLA+ strings, handled character by character with Len,      *)
(* SubSeq and \o.                                                          *)
(***************************************************************************)
EXTENDS Integers, Sequences, FiniteSets, TLC

VARIABLES
    prefixId,     \* the prefixId argument of the codec / baseId of the control
    value,        \* the argument register: the value or id about to be passed
    edits,        \* number of character edits applied to the argument so far
    origin,       \* the call whose result was fed back into `value`
    fn,           \* the codec function called last ("none" before any call)
    ret,          \* its string-or-undefined result
    index,        \* the result of getAlignmentIndex (a number or undefined)
    points,       \* the points AlignmentMatrixControlIcon rendered last
    mounted,      \* whether AlignmentMatrixControl has rendered
    propValue,    \* the `value` prop of the control
    propDefault,  \* the `defaultValue` prop of the control
    activeId,     \* the composite store's activeId state
    rtl,          \* the `rtl` option handed to the store: isRTL()
    event,        \* the handler that ran last: mount, activate, setValue, render
    activated,    \* <<id>> for the identifier activated last, <<>> before any
    emitted,      \* the change notifications the last handler sent to onChange
    blockOrder,              \* block editor store: client ids of the blocks, in order
    selectedBlockClientIds,  \* block editor store: the selected client ids
    clientIds,               \* BlockSettingsDropdown prop: the blocks the menu is for
    selectBlockSupplied,     \* whether the __experimentalSelectBlock prop is given
    canRemove,               \* BlockActions: the Remove item is rendered
    canDuplicate,            \* BlockActions: the Duplicate item is rendered
    menuOpen,                \* the dropdown is open
    removed,                 \* onRemove has run
    pending,                 \* duplicate promises a selection update still awaits
    calls,                   \* the callbacks run since the menu opened, in order
    duplicated,              \* <<result>> of the promise settled last, else <<>>
    canvasMode,                 \* edit-site store: "view" or "edit"
    generalSidebar,             \* edit-site store: the open general sidebar, "" if none
    editorCanvasContainerView,  \* edit-site store: the canvas container view, "" if none
    isListViewOpened,           \* edit-site store
    isMobileViewport,           \* useViewportMatch( 'medium', '<' )
    globalStyles,               \* core store: how much of the global styles record exists
    revisions,                  \* useGlobalStylesRevisions().revisions
    isLoadingRevisions,         \* useGlobalStylesRevisions().isLoading
    footer,                     \* whether the last render rendered the footer
    running,                    \* per handler: where it is, and the promises settled
    dispatched                  \* the store actions the last step called, in order

utilVars == <<value, edits, origin, fn, ret, index, points>>
controlVars == <<mounted, propValue, propDefault, activeId,
                 rtl, event, activated, emitted>>
menuVars == <<blockOrder, selectedBlockClientIds, clientIds,
              selectBlockSupplied, canRemove, canDuplicate, menuOpen,
              removed, pending, calls, duplicated>>
sidebarVars == <<canvasMode, generalSidebar, editorCanvasContainerView,
                 isListViewOpened, isMobileViewport, globalStyles, revisions,
                 isLoadingRevisions, footer, running, dispatched>>
editorVars == <<menuVars, sidebarVars>>
vars == <<prefixId, value, edits, origin, fn, ret, index, points,
          mounted, propValue, propDefault, activeId,
          rtl, event, activated, emitted,
          blockOrder, selectedBlockClientIds, clientIds, selectBlockSupplied,
          canRemove, canDuplicate, menuOpen, removed, pending, calls,
          duplicated,
          canvasMode, generalSidebar, editorCanvasContainerView,
          isListViewOpened, isMobileViewport, globalStyles, revisions,
          isLoadingRevisions, footer, running, dispatched>>

(***************************************************************************)
(* JavaScript values                                                       *)
(***************************************************************************)
Undefined == <<>>
Null == <<"null", "">>
Str(s) == <<s>>
Num(n) == <<n>>
IsNullish(v) == v = Undefined \/ v = Null
\* `!x` for x undefined, null or a string: only "" is a falsy string.
IsFalsy(v) == IsNullish(v) \/ v = Str("")

(***************************************************************************)
(* String.prototype.indexOf / replace with a string pattern: the first     *)
(* occurrence only.  IndexOf is 1-based, 0 when there is no occurrence.    *)
(***************************************************************************)
Occurs(s, pat, i) == SubSeq(s, i, i + Len(pat) - 1) = pat

IndexOf(s, pat) ==
    LET hits == {i \in 1..(Len(s) - Len(pat) + 1) : Occurs(s, pat, i)}
    IN  IF hits = {} THEN 0
        ELSE CHOOSE i \in hits : \A j \in hits : i <= j

Replace(s, pat, rep) ==
    LET i == IndexOf(s, pat)
    IN  IF i = 0 THEN s
        ELSE SubSeq(s, 1, i - 1) \o rep \o SubSeq(s, i + Len(pat), Len(s))

(***************************************************************************)
(* utils.tsx                                                               *)
(***************************************************************************)
GRID ==
    << <<"top left", "top center", "top right">>,
       <<"center left", "center center", "center right">>,
       <<"bottom left", "bottom center", "bottom right">> >>

\* GRID.flat()
ALIGNMENTS == GRID[1] \o GRID[2] \o GRID[3]

\* ALIGNMENTS.includes( v )
Includes(v) ==
    /\ ~IsNullish(v)
    /\ \E i \in 1..Len(ALIGNMENTS) : ALIGNMENTS[i] = v[1]

\* ALIGNMENTS.indexOf( s ), 0-based, -1 when absent
AlignmentsIndexOf(s) ==
    LET hits == {i \in 1..Len(ALIGNMENTS) : ALIGNMENTS[i] = s}
    IN  IF hits = {} THEN -1
        ELSE (CHOOSE i \in hits : \A j \in hits : i <= j) - 1

\* Faulty variants of normalize: without the "center" shorthand, and
\* without the membership test.
normalize_NoShorthand(v) ==
    LET transformed == IF IsNullish(v) THEN Undefined
                       ELSE Str(Replace(v[1], "-", " "))
    IN  IF Includes(transformed) THEN transformed ELSE Undefined

normalize_NoCheck(v) ==
    LET normalized == IF v = Str("center") THEN Str("center center") ELSE v
    IN  IF IsNullish(normalized) THEN Undefined
        ELSE Str(Replace(normalized[1], "-", " "))

normalize(v) ==
    LET normalized == IF v = Str("center") THEN Str("center center") ELSE v
        transformed == IF IsNullish(normalized) THEN Undefined
                       ELSE Str(Replace(normalized[1], "-", " "))
    IN  IF Includes(transformed) THEN transformed ELSE Undefined

\* Faulty variants of getItemId: the space kept, and the raw value encoded.
getItemId_KeepSpace(p, v) ==
    LET normalized == normalize(v)
    IN  IF IsFalsy(normalized) THEN Undefined
        ELSE Str(p \o "-" \o normalized[1])

getItemId_RawValue(p, v) ==
    IF IsNullish(v) THEN Undefined
    ELSE Str(p \o "-" \o Replace(v[1], " ", "-"))

getItemId(p, v) ==
    LET normalized == normalize(v)
    IN  IF IsFalsy(normalized) THEN Undefined
        ELSE Str(p \o "-" \o Replace(normalized[1], " ", "-"))

\* Faulty variants of getItemValue: result not normalized, prefix not removed.
getItemValue_NoNormalize(p, id) ==
    IF IsNullish(id) THEN Undefined ELSE Str(Replace(id[1], p \o "-", ""))

getItemValue_NoStrip(p, id) == normalize(id)

getItemValue(p, id) ==
    LET v == IF IsNullish(id) THEN Undefined
             ELSE Str(Replace(id[1], p \o "-", ""))
    IN  normalize(v)

\* Faulty variants of getAlignmentIndex: -1 for no match, no default argument.
getAlignmentIndex_MinusOne(alignment) ==
    LET a == IF alignment = Undefined THEN Str("center") ELSE alignment
        normalized == normalize(a)
    IN  IF IsFalsy(normalized) THEN Num(-1)
        ELSE Num(AlignmentsIndexOf(normalized[1]))

getAlignmentIndex_NoDefault(alignment) ==
    LET normalized == normalize(alignment)
    IN  IF IsFalsy(normalized) THEN Undefined
        ELSE Num(AlignmentsIndexOf(normalized[1]))

getAlignmentIndex(alignment) ==
    LET a == IF alignment = Undefined THEN Str("center") ELSE alignment
        normalized == normalize(a)
    IN  IF IsFalsy(normalized) THEN Undefined
        ELSE LET i == AlignmentsIndexOf(normalized[1])
             IN  IF i > -1 THEN Num(i) ELSE Undefined

(***************************************************************************)
(* Callers of the codec: the arguments they can pass                       *)
(***************************************************************************)
MaxEdits == 1

Prefixes == {"abc", "m-0", ""}

Canonical == {ALIGNMENTS[i] : i \in 1..Len(ALIGNMENTS)}

\* The inputs normalize is written to accept: the canonical values, the
\* shorthand and the hyphen-separated forms.
Accepted ==
    Canonical \cup {"center"} \cup {Replace(c, " ", "-") : c \in Canonical}

Rejected ==
    {"", "diagonal", "invalid", "Center", "Top Left", "TOP-LEFT",
     "top-left-corner", "bottom--left", "left top", "centercenter"}

\* Identifiers made under the prefixes: stale for every other prefix.
StaleIds ==
    LET ids == {getItemId(q, Str(c)) :
                    q \in Prefixes, c \in {"top left", "center"}}
    IN  {id[1] : id \in ids \ {Undefined}}

Inputs ==
    {Str(s) : s \in Accepted \cup Rejected \cup StaleIds}
        \cup {Undefined, Null}

Pieces(p) == {"-", " ", p \o "-"}

InsertAt(s, i, piece) == SubSeq(s, 1, i) \o piece \o SubSeq(s, i + 1, Len(s))
DeleteAt(s, i) == SubSeq(s, 1, i - 1) \o SubSeq(s, i + 1, Len(s))

NoCall == [fn |-> "none", arg |-> Undefined]

(***************************************************************************)
(* Initial state: an argument and a prefix chosen by the caller, nothing   *)
(* called yet, the control not rendered.                                   *)
(***************************************************************************)
ControlIdle ==
    /\ mounted = FALSE
    /\ propValue = Undefined
    /\ propDefault = Undefined
    /\ activeId = Undefined
    /\ rtl = FALSE
    /\ event = "none"
    /\ activated = <<>>
    /\ emitted = <<>>

\* No BlockSettingsDropdown is rendered.
MenuIdle ==
    /\ blockOrder = <<>>
    /\ selectedBlockClientIds = {}
    /\ clientIds = [isArray |-> TRUE, items |-> <<>>]
    /\ selectBlockSupplied = FALSE
    /\ canRemove = FALSE
    /\ canDuplicate = FALSE
    /\ menuOpen = FALSE
    /\ removed = FALSE
    /\ pending = 0
    /\ calls = <<>>
    /\ duplicated = <<>>

\* The handlers of SidebarNavigationScreenGlobalStyles that await
\* openGlobalStyles().
Handlers == {"openStyleBook", "openRevisions", "editStyles"}

NotRunning == [pc |-> "idle", settled |-> <<>>]

\* No SidebarNavigationScreenGlobalStyles is rendered.
SidebarIdle ==
    /\ canvasMode = "view"
    /\ generalSidebar = ""
    /\ editorCanvasContainerView = ""
    /\ isListViewOpened = FALSE
    /\ isMobileViewport = FALSE
    /\ globalStyles = [missing |-> "id", count |-> 0]
    /\ revisions = [defined |-> FALSE, items |-> <<>>]
    /\ isLoadingRevisions = FALSE
    /\ footer = FALSE
    /\ running = [h \in Handlers |-> NotRunning]
    /\ dispatched = <<>>

EditorIdle == MenuIdle /\ SidebarIdle

Init ==
    /\ prefixId \in Prefixes
    /\ value \in Inputs
    /\ edits = 0
    /\ origin = NoCall
    /\ fn = "none"
    /\ ret = Undefined
    /\ index = Undefined
    /\ points = <<>>
    /\ ControlIdle
    /\ EditorIdle

\* The caller alters the argument by one character edit before passing it.
Insert ==
    /\ edits < MaxEdits
    /\ ~IsNullish(value)
    /\ \E i \in 0..Len(value[1]), piece \in Pieces(prefixId) :
          value' = Str(InsertAt(value[1], i, piece))
    /\ edits' = edits + 1
    /\ origin' = NoCall
    /\ fn' = "none"
    /\ ret' = Undefined
    /\ index' = Undefined
    /\ points' = <<>>
    /\ UNCHANGED <<prefixId, controlVars, editorVars>>

Delete ==
    /\ edits < MaxEdits
    /\ ~IsNullish(value)
    /\ \E i \in 1..Len(value[1]) : value' = Str(DeleteAt(value[1], i))
    /\ edits' = edits + 1
    /\ origin' = NoCall
    /\ fn' = "none"
    /\ ret' = Undefined
    /\ index' = Undefined
    /\ points' = <<>>
    /\ UNCHANGED <<prefixId, controlVars, editorVars>>

CallNormalize ==
    /\ fn' = "normalize"
    /\ ret' = normalize(value)
    /\ index' = Undefined
    /\ points' = <<>>
    /\ UNCHANGED <<prefixId, value, edits, origin, controlVars, editorVars>>

CallGetItemId ==
    /\ fn' = "getItemId"
    /\ ret' = getItemId(prefixId, value)
    /\ index' = Undefined
    /\ points' = <<>>
    /\ UNCHANGED <<prefixId, value, edits, origin, controlVars, editorVars>>

CallGetItemValue ==
    /\ fn' = "getItemValue"
    /\ ret' = getItemValue(prefixId, value)
    /\ index' = Undefined
    /\ points' = <<>>
    /\ UNCHANGED <<prefixId, value, edits, origin, controlVars, editorVars>>

CallGetAlignmentIndex ==
    /\ fn' = "getAlignmentIndex"
    /\ ret' = Undefined
    /\ index' = getAlignmentIndex(value)
    /\ points' = <<>>
    /\ UNCHANGED <<prefixId, value, edits, origin, controlVars, editorVars>>

\* The caller passes the string a call returned as the next argument.
Feed ==
    /\ fn \in {"normalize", "getItemId", "getItemValue"}
    /\ ret # Undefined
    /\ value' = ret
    /\ origin' = [fn |-> fn, arg |-> value]
    /\ fn' = "none"
    /\ ret' = Undefined
    /\ index' = Undefined
    /\ points' = <<>>
    /\ UNCHANGED <<prefixId, edits, controlVars, editorVars>>

\* The points AlignmentMatrixControlIcon renders: ALIGNMENTS.map( ( align,
\* index ) => { const isActive = alignIndex === index; ... } ), one faulty
\* variant counting positions from 1.
IconPoints_OneBased(alignIndex) ==
    [i \in 1..Len(ALIGNMENTS) |->
        [key |-> ALIGNMENTS[i], isActive |-> alignIndex = Num(i)]]

IconPoints(alignIndex) ==
    [i \in 1..Len(ALIGNMENTS) |->
        [key |-> ALIGNMENTS[i], isActive |-> alignIndex = Num(i - 1)]]

\* The value prop of the icon: value = 'center' when omitted.
IconValueProp(v) == IF v = Undefined THEN Str("center") ELSE v

\* AlignmentMatrixControlIcon( { value = 'center', ... } ) renders.
AlignmentMatrixControlIcon ==
    /\ fn' = "AlignmentMatrixControlIcon"
    /\ ret' = Undefined
    /\ index' = getAlignmentIndex(IconValueProp(value))
    /\ points' = IconPoints(getAlignmentIndex(IconValueProp(value)))
    /\ UNCHANGED <<prefixId, value, edits, origin, controlVars, editorVars>>

Next ==
    \/ Insert
    \/ Delete
    \/ CallNormalize
    \/ CallGetItemId
    \/ CallGetItemValue
    \/ CallGetAlignmentIndex
    \/ AlignmentMatrixControlIcon
    \/ Feed

Spec == Init /\ [][Next]_vars

(***************************************************************************)
(* AlignmentMatrixControl: the first render creates the composite store    *)
(* from the props.                                                         *)
(***************************************************************************)
UtilsIdle ==
    /\ value = Undefined
    /\ edits = 0
    /\ origin = NoCall
    /\ fn = "none"
    /\ ret = Undefined
    /\ index = Undefined
    /\ points = <<>>

\* The destructuring default of the component: defaultValue = 'center center'
DefaultValueProp(d) == IF d = Undefined THEN Str("center center") ELSE d

\* Faulty variants of StoreOptions: the two ids swapped, and the activeId
\* option left out.
StoreOptions_Swapped(p, v, d, r) ==
    [ defaultActiveId |-> getItemId(p, v),
      activeId |-> getItemId(p, DefaultValueProp(d)),
      rtl |-> r ]

StoreOptions_NoActiveId(p, v, d, r) ==
    [ defaultActiveId |-> getItemId(p, DefaultValueProp(d)),
      activeId |-> Undefined,
      rtl |-> r ]

\* The options the component hands to the store (its setActiveId option
\* is OnSetActiveId below).
StoreOptions(p, v, d, r) ==
    [ defaultActiveId |-> getItemId(p, DefaultValueProp(d)),
      activeId |-> getItemId(p, v),
      rtl |-> r ]

\* The store's initial activeId: the activeId option when it is defined,
\* otherwise the defaultActiveId option.
InitialActiveId(options) ==
    IF options.activeId # Undefined THEN options.activeId
    ELSE options.defaultActiveId

\* The store runs in controlled mode when it is given an activeId option.
Controlled(options) == options.activeId # Undefined

\* Faulty variants of the setActiveId callback: the guard on the decoded
\* value dropped, the identifier itself passed on, and onChange called
\* twice.
OnSetActiveId_Twice(p, nextActiveId) ==
    LET nextValue == getItemValue(p, nextActiveId)
    IN  IF IsFalsy(nextValue) THEN <<>> ELSE <<nextValue, nextValue>>

OnSetActiveId_NoGuard(p, nextActiveId) ==
    <<getItemValue(p, nextActiveId)>>

OnSetActiveId_PassId(p, nextActiveId) ==
    LET nextValue == getItemValue(p, nextActiveId)
    IN  IF IsFalsy(nextValue) THEN <<>> ELSE <<nextActiveId>>

\* The setActiveId option of the component:
\*   nextActiveId => { const nextValue = getItemValue( baseId, nextActiveId );
\*                     nextValue && onChange?.( nextValue ) }
\* as the sequence of values it sends to onChange.
OnSetActiveId(p, nextActiveId) ==
    LET nextValue == getItemValue(p, nextActiveId)
    IN  IF IsFalsy(nextValue) THEN <<>> ELSE <<nextValue>>

\* The store's activeId after the activation of `id`: the store keeps its
\* own state only in uncontrolled mode, and only for a decodable id.
NextActiveId(options, current, p, id) ==
    IF ~Controlled(options) /\ ~IsFalsy(getItemValue(p, id))
    THEN id
    ELSE current

\* The store's activeId after a render: the activeId option when given.
SyncActiveId(options, current) ==
    IF Controlled(options) THEN options.activeId ELSE current

\* Faulty variant of CellId: the columns mirrored in a right-to-left
\* locale.
CellId_Mirrored(p, cell) ==
    getItemId(p, Str(IF ~rtl THEN cell
                     ELSE IF Replace(cell, "left", "right") # cell
                          THEN Replace(cell, "left", "right")
                          ELSE Replace(cell, "right", "left")))

\* cells.map( cell => { const cellId = getItemId( baseId, cell ) ... } )
CellId(p, cell) == getItemId(p, Str(cell))

\* Faulty variant of IsActive: a cell is active when its value decodes
\* from the active identifier.
IsActive_ByValue(p, cell, active) == getItemValue(p, active) = Str(cell)

\* isActive = cellId === activeId
IsActive(p, cell, active) == CellId(p, cell) = active

\* The cells rendered as active.
ActiveCells == {cell \in Canonical : IsActive(prefixId, cell, activeId)}

\* The values a caller passes as value and defaultValue.
ControlValues ==
    {Undefined, Null} \cup
    {Str(s) : s \in {"center", "top right", "bottom left", "bottom-center",
                     "diagonal"}}

\* The identifiers an activation can carry: the rendered cells', an absent
\* one, unknown and stale ones, and strings that are no cell's id although
\* getItemValue decodes them.
ActivationIds(p) ==
    {CellId(p, cell) : cell \in Canonical}
        \cup {Undefined}
        \cup {Str(s) : s \in {p \o "-diagonal", "zz-top-left",
                              p \o "-center", "top left",
                              "t" \o p \o "-op-left"}}

InitControl ==
    /\ prefixId \in Prefixes
    /\ propValue \in ControlValues
    /\ propDefault \in ControlValues
    /\ rtl \in BOOLEAN
    /\ mounted = FALSE
    /\ activeId = Undefined
    /\ event = "none"
    /\ activated = <<>>
    /\ emitted = <<>>
    /\ UtilsIdle
    /\ EditorIdle

Mount ==
    /\ ~mounted
    /\ mounted' = TRUE
    /\ activeId' = InitialActiveId(
          StoreOptions(prefixId, propValue, propDefault, rtl))
    /\ event' = "mount"
    /\ emitted' = <<>>
    /\ UNCHANGED <<prefixId, propValue, propDefault, rtl, activated, utilVars,
                   editorVars>>

\* The user activates the cell with identifier id: the store hands the id to
\* the component's setActiveId option and keeps it in uncontrolled mode.
Activate ==
    /\ mounted
    /\ \E id \in ActivationIds(prefixId) :
          /\ activated' = <<id>>
          /\ emitted' = OnSetActiveId(prefixId, id)
          /\ activeId' = NextActiveId(
                StoreOptions(prefixId, propValue, propDefault, rtl),
                activeId, prefixId, id)
    /\ event' = "activate"
    /\ UNCHANGED <<prefixId, mounted, propValue, propDefault, rtl, utilVars,
                   editorVars>>

\* The caller renders the control with another value prop.
SetValue ==
    /\ mounted
    /\ \E v \in ControlValues \ {propValue} :
          /\ propValue' = v
          /\ activeId' = SyncActiveId(
                StoreOptions(prefixId, v, propDefault, rtl), activeId)
    /\ event' = "setValue"
    /\ emitted' = <<>>
    /\ UNCHANGED <<prefixId, mounted, propDefault, rtl, activated, utilVars,
                   editorVars>>

\* Faulty variant of Render: the store created anew on every render.
Render_NewStore ==
    /\ mounted
    /\ activeId' = InitialActiveId(
          StoreOptions(prefixId, propValue, propDefault, rtl))
    /\ event' = "render"
    /\ emitted' = <<>>
    /\ UNCHANGED <<prefixId, mounted, propValue, propDefault, rtl,
                   activated, utilVars,
                   editorVars>>

\* A render with unchanged props.
Render ==
    /\ mounted
    /\ activeId' = SyncActiveId(
          StoreOptions(prefixId, propValue, propDefault, rtl), activeId)
    /\ event' = "render"
    /\ emitted' = <<>>
    /\ UNCHANGED <<prefixId, mounted, propValue, propDefault, rtl,
                   activated, utilVars,
                   editorVars>>

NextControl ==
    \/ Mount
    \/ Activate
    \/ SetValue
    \/ Render

SpecControl == InitControl /\ [][NextControl]_vars

(***************************************************************************)
(* The Default story: Template keeps the value in its own state and hands  *)
(* it to the control.                                                      *)
(***************************************************************************)
\* Faulty variant of TemplateValue: onChange does not store the value.
TemplateValue_Dropped(current, changeArgs) == current

\* const [ value, setValue ] = useState();
\* onChange: ( ...changeArgs ) => { setValue( ...changeArgs ); ... }
\* The state after the onChange calls of one handler.
TemplateValue(current, changeArgs) ==
    IF changeArgs = <<>> THEN current ELSE changeArgs[Len(changeArgs)]

\* Template( { defaultValue, onChange, ...props } ) passes value only: the
\* story's defaultValue never reaches the control.
InitStory ==
    /\ prefixId \in Prefixes
    /\ rtl \in BOOLEAN
    /\ propValue = Undefined
    /\ propDefault = Undefined
    /\ mounted = FALSE
    /\ activeId = Undefined
    /\ event = "none"
    /\ activated = <<>>
    /\ emitted = <<>>
    /\ UtilsIdle
    /\ EditorIdle

\* An activation under Template: the values sent to onChange are stored with
\* setValue and come back as the value prop of the render that follows.
StoryActivate ==
    /\ mounted
    /\ \E id \in ActivationIds(prefixId) :
          LET changeArgs == OnSetActiveId(prefixId, id)
              stored == NextActiveId(
                  StoreOptions(prefixId, propValue, propDefault, rtl),
                  activeId, prefixId, id)
              nextValue == TemplateValue(propValue, changeArgs)
          IN  /\ activated' = <<id>>
              /\ emitted' = changeArgs
              /\ propValue' = nextValue
              /\ activeId' = SyncActiveId(
                    StoreOptions(prefixId, nextValue, propDefault, rtl),
                    stored)
    /\ event' = "activate"
    /\ UNCHANGED <<prefixId, mounted, propDefault, rtl, utilVars,
                   editorVars>>

NextStory ==
    \/ Mount
    \/ StoryActivate
    \/ Render

SpecStory == InitStory /\ [][NextStory]_vars

(***************************************************************************)
(* BlockSettingsDropdown (block-settings-dropdown.js): the Remove and      *)
(* Duplicate items.  Client ids are non-empty strings; "" stands for the   *)
(* null a store selector returns when there is no such block.  A callback  *)
(* call is the tuple of its name and arguments.                            *)
(***************************************************************************)
MaxPending == 1

NoBlock == ""

\* The lists of blocks the store holds.
BlockOrders == {<<"a">>, <<"a", "b">>, <<"a", "b", "c">>}

\* The runs of consecutive blocks of an order.
Runs(order) ==
    {SubSeq(order, i, j) : i \in 1..Len(order), j \in 1..Len(order)}
        \ {<<>>}

\* What the promise returned by onDuplicate resolves to: nothing, or a list
\* of client ids.
DuplicateResults ==
    {[present |-> FALSE, ids |-> <<>>]}
        \cup {[present |-> TRUE, ids |-> ids] :
                ids \in {<<>>, <<"d">>, <<"e", "d">>}}

\* const blockClientIds = Array.isArray( clientIds ) ? clientIds : [ clientIds ];
BlockClientIds(c) == IF c.isArray THEN c.items ELSE <<c.items[1]>>

\* getPreviousBlockClientId( firstBlockClientId )
getPreviousBlockClientId(order, id) ==
    IF \E i \in 2..Len(order) : order[i] = id
    THEN order[(CHOOSE i \in 2..Len(order) : order[i] = id) - 1]
    ELSE NoBlock

\* getNextBlockClientId( firstBlockClientId )
getNextBlockClientId(order, id) ==
    IF \E i \in 1..(Len(order) - 1) : order[i] = id
    THEN order[(CHOOSE i \in 1..(Len(order) - 1) : order[i] = id) + 1]
    ELSE NoBlock

\* Faulty variant of updateSelectionAfterRemove: the next sibling
\* preferred.
updateSelectionAfterRemove_NextFirst(supplied, previous, next, selected, first) ==
    IF ~supplied THEN <<>>
    ELSE LET blockToSelect ==
                 IF next # NoBlock THEN next
                 ELSE previous
         IN  IF /\ blockToSelect # NoBlock
                /\ first \in selected
                /\ blockToSelect \notin selected
             THEN << <<"__experimentalSelectBlock", blockToSelect>> >>
             ELSE <<>>

\* updateSelectionAfterRemove, as the calls it makes: noop without
\* __experimentalSelectBlock, otherwise
\*   const blockToSelect = previousBlockClientId || nextBlockClientId;
\*   if ( blockToSelect
\*        && selectedBlockClientIds.includes( firstBlockClientId )
\*        && ! selectedBlockClientIds.includes( blockToSelect ) )
\*       __experimentalSelectBlock( blockToSelect );
updateSelectionAfterRemove(supplied, previous, next, selected, first) ==
    IF ~supplied THEN <<>>
    ELSE LET blockToSelect ==
                 IF previous # NoBlock
                 THEN previous
                 ELSE next
         IN  IF /\ blockToSelect # NoBlock
                /\ first \in selected
                /\ blockToSelect \notin selected
             THEN << <<"__experimentalSelectBlock", blockToSelect>> >>
             ELSE <<>>

\* Faulty variant of updateSelectionAfterDuplicate: the last id selected.
updateSelectionAfterDuplicate_Last(supplied, result) ==
    IF ~supplied THEN <<>>
    ELSE IF result.present /\ Len(result.ids) > 0
         THEN << <<"__experimentalSelectBlock",
                   result.ids[Len(result.ids)]>> >>
         ELSE <<>>

\* updateSelectionAfterDuplicate once the promise has resolved, as the
\* calls it makes: noop without __experimentalSelectBlock, otherwise
\*   const ids = await clientIdsPromise;
\*   if ( ids && ids[ 0 ] ) __experimentalSelectBlock( ids[ 0 ] );
updateSelectionAfterDuplicate(supplied, result) ==
    IF ~supplied THEN <<>>
    ELSE IF /\ result.present
            /\ Len(result.ids) > 0
            /\ result.ids[1] # NoBlock
         THEN << <<"__experimentalSelectBlock", result.ids[1]>> >>
         ELSE <<>>

\* pipe( f, g, h ): the functions run left to right.
pipe(first, second, third) == first \o second \o third

InitMenu ==
    /\ blockOrder \in BlockOrders
    /\ selectedBlockClientIds \in SUBSET {blockOrder[i] : i \in 1..Len(blockOrder)}
    /\ \E run \in Runs(blockOrder) :
          clientIds \in {[isArray |-> TRUE, items |-> run]}
              \cup {[isArray |-> FALSE, items |-> <<id>>] :
                      id \in {run[1]} \cap {run[Len(run)]}}
    /\ selectBlockSupplied \in BOOLEAN
    /\ canRemove \in BOOLEAN
    /\ canDuplicate \in BOOLEAN
    /\ menuOpen = FALSE
    /\ removed = FALSE
    /\ pending = 0
    /\ calls = <<>>
    /\ duplicated = <<>>
    /\ prefixId = ""
    /\ UtilsIdle
    /\ ControlIdle
    /\ SidebarIdle

\* The user opens the dropdown.
OpenMenu ==
    /\ ~menuOpen
    /\ ~removed
    /\ menuOpen' = TRUE
    /\ calls' = <<>>
    /\ duplicated' = <<>>
    /\ UNCHANGED <<blockOrder, selectedBlockClientIds, clientIds,
                   selectBlockSupplied, canRemove, canDuplicate, removed,
                   pending, prefixId, utilVars, controlVars,
                   sidebarVars>>

\* RemoveMenuItem: onClick={ pipe( onClose, onRemove,
\* updateSelectionAfterRemove ) }, with the values the component read from
\* the store at its last render.
ClickRemove ==
    /\ menuOpen
    /\ canRemove
    /\ LET blockClientIds == BlockClientIds(clientIds)
           firstBlockClientId == blockClientIds[1]
           isRemoved(id) == \E i \in 1..Len(blockClientIds) :
                               blockClientIds[i] = id
           isKept(id) == ~isRemoved(id)
       IN  /\ calls' = pipe(
                 << <<"onClose">> >>,
                 << <<"onRemove">> >>,
                 updateSelectionAfterRemove(
                     selectBlockSupplied,
                     getPreviousBlockClientId(blockOrder, firstBlockClientId),
                     getNextBlockClientId(blockOrder, firstBlockClientId),
                     selectedBlockClientIds,
                     firstBlockClientId))
           /\ blockOrder' = SelectSeq(blockOrder, isKept)
    /\ menuOpen' = FALSE
    /\ removed' = TRUE
    /\ UNCHANGED <<selectedBlockClientIds, clientIds, selectBlockSupplied,
                   canRemove, canDuplicate, pending, duplicated,
                   prefixId, utilVars, controlVars,
                   sidebarVars>>

\* DuplicateMenuItem: onClick={ pipe( onClose, onDuplicate,
\* updateSelectionAfterDuplicate ) }; with __experimentalSelectBlock the
\* last function stops at its await.
ClickDuplicate ==
    /\ menuOpen
    /\ canDuplicate
    /\ pending < MaxPending
    /\ calls' = pipe(<< <<"onClose">> >>, << <<"onDuplicate">> >>, <<>>)
    /\ menuOpen' = FALSE
    /\ pending' = IF selectBlockSupplied THEN pending + 1 ELSE pending
    /\ UNCHANGED <<blockOrder, selectedBlockClientIds, clientIds,
                   selectBlockSupplied, canRemove, canDuplicate, removed,
                   duplicated, prefixId, utilVars, controlVars,
                   sidebarVars>>

\* The promise onDuplicate returned resolves and the selection update
\* that awaits it resumes.
SettleDuplicate ==
    /\ pending > 0
    /\ \E result \in DuplicateResults :
          /\ duplicated' = <<result>>
          /\ calls' = calls \o updateSelectionAfterDuplicate(
                                    selectBlockSupplied, result)
    /\ pending' = pending - 1
    /\ UNCHANGED <<blockOrder, selectedBlockClientIds, clientIds,
                   selectBlockSupplied, canRemove, canDuplicate, menuOpen,
                   removed, prefixId, utilVars, controlVars,
                   sidebarVars>>

NextMenu ==
    \/ OpenMenu
    \/ ClickRemove
    \/ ClickDuplicate
    \/ SettleDuplicate

SpecMenu == InitMenu /\ [][NextMenu]_vars

(***************************************************************************)
(* SidebarNavigationScreenGlobalStyles (sidebar-navigation-screen-global-  *)
(* styles/index.js).  A store action that returns a promise takes effect   *)
(* when the promise settles; "" stands for an undefined view or sidebar.   *)
(***************************************************************************)
MaxCount == 1

\* globalStyles?._links?.[ 'version-history' ]?.[ 0 ]?.count: the first part
\* of the chain that is missing ("" when none is), and the count it ends in.
GlobalStylesStates ==
    {[missing |-> m, count |-> 0] : m \in {"id", "record", "version-history"}}
        \cup {[missing |-> "", count |-> n] : n \in 0..MaxCount}

\* What useGlobalStylesRevisions can return as revisions, newest first.
RevisionLists ==
    {[defined |-> FALSE, items |-> <<>>],
     [defined |-> TRUE, items |-> <<>>],
     [defined |-> TRUE, items |-> <<[modified |-> Str("2024-05-01")]>>],
     [defined |-> TRUE, items |-> <<[modified |-> Undefined]>>],
     [defined |-> TRUE,
      items |-> <<[modified |-> Undefined], [modified |-> Str("2024-04-01")]>>]}

revisionsCount_FromList(gs) == IF gs.missing # "" THEN 1 ELSE gs.count

revisionsCount(gs) == IF gs.missing # "" THEN 0 ELSE gs.count

modifiedDateTime(revs) ==
    IF ~revs.defined \/ Len(revs.items) = 0
    THEN Undefined
    ELSE revs.items[1].modified

shouldShowGlobalStylesFooter_AnyCount(gs, revs, loading) ==
    /\ ~loading
    /\ ~IsFalsy(modifiedDateTime(revs))

shouldShowGlobalStylesFooter(gs, revs, loading) ==
    /\ revisionsCount(gs) > 0
    /\ ~loading
    /\ ~IsFalsy(modifiedDateTime(revs))

isViewMode == canvasMode = "view"

isStyleBookOpened == editorCanvasContainerView = "style-book"

\* The store actions openGlobalStyles calls, in order.
openGlobalStyles ==
    << <<"setCanvasMode", "edit">>,
       <<"openGeneralSidebar", "edit-site/global-styles">> >>

Settled(h) == {running[h].settled[i] : i \in 1..Len(running[h].settled)}

\* Promise.all resolves once every promise it was given has.
PromiseAll_Race(settled) == settled # {}

PromiseAll(settled) ==
    \A call \in {openGlobalStyles[i][1] : i \in 1..Len(openGlobalStyles)} :
        call \in settled

InitSidebar ==
    /\ canvasMode = "view"
    /\ generalSidebar = ""
    /\ editorCanvasContainerView \in {"", "style-book"}
    /\ isListViewOpened \in BOOLEAN
    /\ isMobileViewport \in BOOLEAN
    /\ globalStyles \in GlobalStylesStates
    /\ revisions \in RevisionLists
    /\ isLoadingRevisions \in BOOLEAN
    /\ footer = shouldShowGlobalStylesFooter(globalStyles, revisions,
                                             isLoadingRevisions)
    /\ running = [h \in Handlers |-> NotRunning]
    /\ dispatched = <<>>
    /\ prefixId = ""
    /\ UtilsIdle
    /\ ControlIdle
    /\ MenuIdle

\* A handler calls openGlobalStyles and awaits it.
Await(h) ==
    /\ running[h].pc # "awaiting"
    /\ running' = [running EXCEPT ![h] = [pc |-> "awaiting", settled |-> <<>>]]
    /\ dispatched' = openGlobalStyles
    /\ UNCHANGED <<canvasMode, generalSidebar, editorCanvasContainerView,
                   isListViewOpened, isMobileViewport, globalStyles,
                   revisions, isLoadingRevisions, footer, prefixId, utilVars,
                   controlVars, menuVars>>

\* The user clicks or selects in the rendered Style Book.
ClickStyleBook ==
    /\ isStyleBookOpened
    /\ ~isMobileViewport
    /\ isViewMode
    /\ Await("openStyleBook")

\* The user clicks the rendered footer.
ClickFooter ==
    /\ footer
    /\ Await("openRevisions")

\* The user clicks the Edit styles button.
ClickEditStyles == Await("editStyles")

\* The user clicks the Style Book button.
ToggleStyleBook ==
    /\ ~isMobileViewport
    /\ editorCanvasContainerView' =
          IF ~isStyleBookOpened THEN "style-book" ELSE ""
    /\ dispatched' =
          << <<"setEditorCanvasContainerView", editorCanvasContainerView'>> >>
    /\ UNCHANGED <<canvasMode, generalSidebar, isListViewOpened,
                   isMobileViewport, globalStyles, revisions,
                   isLoadingRevisions, footer, running, prefixId, utilVars,
                   controlVars, menuVars>>

\* The promise of a handler's setCanvasMode( 'edit' ) settles.
SetCanvasModeSettles ==
    \E h \in Handlers :
        /\ running[h].pc = "awaiting"
        /\ "setCanvasMode" \notin Settled(h)
        /\ canvasMode' = "edit"
        /\ running' = [running EXCEPT
               ![h].settled = Append(@, "setCanvasMode")]
        /\ dispatched' = <<>>
        /\ UNCHANGED <<generalSidebar, editorCanvasContainerView,
                       isListViewOpened, isMobileViewport, globalStyles,
                       revisions, isLoadingRevisions, footer, prefixId,
                       utilVars, controlVars, menuVars>>

\* The promise of a handler's openGeneralSidebar( ... ) settles.
OpenGeneralSidebarSettles ==
    \E h \in Handlers :
        /\ running[h].pc = "awaiting"
        /\ "openGeneralSidebar" \notin Settled(h)
        /\ generalSidebar' = "edit-site/global-styles"
        /\ running' = [running EXCEPT
               ![h].settled = Append(@, "openGeneralSidebar")]
        /\ dispatched' = <<>>
        /\ UNCHANGED <<canvasMode, editorCanvasContainerView,
                       isListViewOpened, isMobileViewport, globalStyles,
                       revisions, isLoadingRevisions, footer, prefixId,
                       utilVars, controlVars, menuVars>>

\* openStyleBook resumes after await openGlobalStyles().
ResumeOpenStyleBook ==
    /\ running["openStyleBook"].pc = "awaiting"
    /\ PromiseAll(Settled("openStyleBook"))
    /\ editorCanvasContainerView' = "style-book"
    /\ isListViewOpened' = FALSE
    /\ dispatched' = << <<"setEditorCanvasContainerView", "style-book">>,
                        <<"setIsListViewOpened", "false">> >>
    /\ running' = [running EXCEPT !["openStyleBook"].pc = "done"]
    /\ UNCHANGED <<canvasMode, generalSidebar, isMobileViewport, globalStyles,
                   revisions, isLoadingRevisions, footer, prefixId, utilVars,
                   controlVars, menuVars>>

\* openRevisions resumes after await openGlobalStyles().
ResumeOpenRevisions ==
    /\ running["openRevisions"].pc = "awaiting"
    /\ PromiseAll(Settled("openRevisions"))
    /\ editorCanvasContainerView' = "global-styles-revisions"
    /\ dispatched' =
          << <<"setEditorCanvasContainerView", "global-styles-revisions">> >>
    /\ running' = [running EXCEPT !["openRevisions"].pc = "done"]
    /\ UNCHANGED <<canvasMode, generalSidebar, isListViewOpened,
                   isMobileViewport, globalStyles, revisions,
                   isLoadingRevisions, footer, prefixId, utilVars,
                   controlVars, menuVars>>

\* The Edit styles handler resumes after await openGlobalStyles().
ResumeEditStyles ==
    /\ running["editStyles"].pc = "awaiting"
    /\ PromiseAll(Settled("editStyles"))
    /\ dispatched' = <<>>
    /\ running' = [running EXCEPT !["editStyles"].pc = "done"]
    /\ UNCHANGED <<canvasMode, generalSidebar, editorCanvasContainerView,
                   isListViewOpened, isMobileViewport, globalStyles,
                   revisions, isLoadingRevisions, footer, prefixId, utilVars,
                   controlVars, menuVars>>

\* The revisions finish loading and the component renders again.
RevisionsLoaded ==
    /\ isLoadingRevisions
    /\ isLoadingRevisions' = FALSE
    /\ revisions' \in RevisionLists
    /\ footer' = shouldShowGlobalStylesFooter(globalStyles, revisions',
                                              isLoadingRevisions')
    /\ dispatched' = <<>>
    /\ UNCHANGED <<canvasMode, generalSidebar, editorCanvasContainerView,
                   isListViewOpened, isMobileViewport, globalStyles, running,
                   prefixId, utilVars, controlVars, menuVars>>

NextSidebar ==
    \/ ClickStyleBook
    \/ ClickFooter
    \/ ClickEditStyles
    \/ ToggleStyleBook
    \/ SetCanvasModeSettles
    \/ OpenGeneralSidebarSettles
    \/ ResumeOpenStyleBook
    \/ ResumeOpenRevisions
    \/ ResumeEditStyles
    \/ RevisionsLoaded

SpecSidebar == InitSidebar /\ [][NextSidebar]_vars

(***************************************************************************)
(* Properties                                                              *)
(***************************************************************************)
StrAccepted == {Str(s) : s \in Accepted}
StrCanonical == {Str(s) : s \in Canonical}

Rows == <<"top", "center", "bottom">>
Cols == <<"left", "center", "right">>

\* The cell in row r, column c, written with separator sep.
Cell(r, c, sep) == Rows[r] \o sep \o Cols[c]

\* The canonical value an accepted input stands for, read off the grid.
CanonicalOf(s) ==
    IF s = "center" THEN "center center"
    ELSE LET rc == CHOOSE rc \in (1..3) \X (1..3) :
                      s \in {Cell(rc[1], rc[2], " "), Cell(rc[1], rc[2], "-")}
         IN  Cell(rc[1], rc[2], " ")

\* The identifier of an accepted input under prefix p, read off the grid.
IdOf(p, s) ==
    IF s = "center" THEN p \o "-center-center"
    ELSE LET rc == CHOOSE rc \in (1..3) \X (1..3) :
                      s \in {Cell(rc[1], rc[2], " "), Cell(rc[1], rc[2], "-")}
         IN  p \o "-" \o Cell(rc[1], rc[2], "-")

\* 3 * row + column of an accepted input, rows and columns counted from 0.
RowMajorIndex(s) ==
    LET c == CanonicalOf(s)
        rc == CHOOSE rc \in (1..3) \X (1..3) : c = Cell(rc[1], rc[2], " ")
    IN  3 * (rc[1] - 1) + (rc[2] - 1)

StartsWith(s, pat) == Len(pat) <= Len(s) /\ SubSeq(s, 1, Len(pat)) = pat

\* C1: round-trip law: decoding, under the same prefix, the id that
\* getItemId produced from an accepted value v yields normalize(v).
C1_RoundTrip ==
    (/\ fn = "getItemValue"
     /\ origin.fn = "getItemId"
     /\ origin.arg \in StrAccepted)
        => /\ ret = normalize(origin.arg)
           /\ ret = Str(CanonicalOf(origin.arg[1]))

C1_Witness ==
    /\ fn = "getItemValue"
    /\ prefixId = "m-0"
    /\ origin = [fn |-> "getItemId", arg |-> Str("bottom-left")]
    /\ value = Str("m-0-bottom-left")
    /\ ret = Str("bottom left")

\* C2: normalize returns a defined result exactly for the 9 canonical
\* values (itself), the shorthand "center" ("center center") and the
\* hyphen-separated forms (the canonical value); every defined result is
\* canonical.
C2_NormalizeDomain ==
    fn = "normalize"
        => /\ (ret # Undefined) <=> (value \in StrAccepted)
           /\ value \in StrAccepted => ret = Str(CanonicalOf(value[1]))
           /\ value \in StrCanonical => ret = value
           /\ ret # Undefined => ret \in StrCanonical

C2_Witness ==
    /\ fn = "normalize"
    /\ value = Str("bottom-left")
    /\ edits = 1
    /\ ret = Str("bottom left")

\* C3: normalize returns undefined for every input that is not accepted:
\* the empty string, undefined, null, unknown tokens, values with more than
\* one hyphen and case variants.
C3_NormalizeRejects ==
    (fn = "normalize" /\ value \notin StrAccepted) => ret = Undefined

C3_Witness ==
    /\ fn = "normalize"
    /\ value = Str("Top Left")
    /\ ret = Undefined

\* C4: getItemId returns undefined when normalize(value) is undefined and
\* otherwise prefix + "-" + the normalized value with its space written as
\* a hyphen; the call changes nothing but its result.
C4_GetItemId ==
    [][fn' = "getItemId"
        => /\ ret' = IF normalize(value) = Undefined THEN Undefined
                     ELSE Str(IdOf(prefixId, normalize(value)[1]))
           /\ (prefixId = "abc" /\ value = Str("top left"))
                => ret' = Str("abc-top-left")
           /\ (prefixId = "abc" /\ value = Str("center"))
                => ret' = Str("abc-center-center")
           /\ UNCHANGED <<prefixId, value, edits, origin, controlVars>>]_vars

C4_Witness ==
    /\ fn = "getItemId"
    /\ prefixId = "abc"
    /\ value = Str("center")
    /\ ret = Str("abc-center-center")

\* C5: for every prefix and every id (well-formed or not, absent, built
\* with another prefix) getItemValue returns undefined or one of the 9
\* canonical values.
C5_GetItemValueRange ==
    fn = "getItemValue" => (ret = Undefined \/ ret \in StrCanonical)

C5_Witness ==
    /\ fn = "getItemValue"
    /\ prefixId = "m-0"
    /\ value = Str("abc-top-left")
    /\ ret = Undefined

\* C6: getItemValue removes `prefix-` only when it leads the id; otherwise
\* the whole id is what gets normalized (stated for non-empty prefixes).
C6_LeadingPrefixOnly ==
    (fn = "getItemValue" /\ ~IsNullish(value) /\ prefixId # "")
        => ret = IF StartsWith(value[1], prefixId \o "-")
                 THEN normalize(Str(SubSeq(value[1], Len(prefixId) + 2,
                                           Len(value[1]))))
                 ELSE normalize(value)

\* C7: re-encoding the decoded value of an id produced by getItemId from
\* an accepted value gives that id back.
C7_IdRoundTrip ==
    (/\ fn = "getItemId"
     /\ origin.fn = "getItemValue"
     /\ \E v \in StrAccepted : getItemId(prefixId, v) = origin.arg)
        => ret = origin.arg

C7_Witness ==
    /\ fn = "getItemId"
    /\ prefixId = "abc"
    /\ origin = [fn |-> "getItemValue", arg |-> Str("abc-center-center")]
    /\ value = Str("center center")
    /\ ret = Str("abc-center-center")

\* C8: getAlignmentIndex with no argument, with "center" and with
\* "center center" returns 4.
C8_CenterIndex ==
    (/\ fn = "getAlignmentIndex"
     /\ value \in {Undefined, Str("center"), Str("center center")})
        => index = Num(4)

C8_Witness ==
    /\ fn = "getAlignmentIndex"
    /\ value = Undefined
    /\ index = Num(4)

\* C9: for every accepted value getAlignmentIndex returns 3*row + column
\* (rows top, center, bottom; columns left, center, right); for every
\* invalid input it returns undefined, never -1 or another integer.  An
\* undefined argument is the omitted argument.
C9_RowMajorIndex ==
    (fn = "getAlignmentIndex" /\ value # Undefined)
        => index = IF value \in StrAccepted
                   THEN Num(RowMajorIndex(value[1]))
                   ELSE Undefined

C9_Witness ==
    /\ fn = "getAlignmentIndex"
    /\ value = Str("bottom-center")
    /\ index = Num(7)

C9_WitnessInvalid ==
    /\ fn = "getAlignmentIndex"
    /\ value = Str("invalid")
    /\ index = Undefined

\* C10 as stated: at initialization a supplied value gives the active id getItemId(prefix,
\* value), whatever the default; otherwise a supplied default value gives
\* getItemId(prefix, defaultValue); otherwise the active id is unset.
C10_AsStated ==
    event = "mount"
        => activeId =
             IF propValue # Undefined THEN getItemId(prefixId, propValue)
             ELSE IF propDefault # Undefined
                  THEN getItemId(prefixId, propDefault)
                  ELSE Undefined

\* C10 amended: at initialization a supplied value that normalize accepts gives the active
\* id getItemId(prefix, value), whatever the default; otherwise (value
\* omitted or not accepted) the active id is getItemId(prefix,
\* defaultValue), an omitted defaultValue standing for "center center".
C10_Initialize ==
    event = "mount"
        => activeId =
             IF propValue \in StrAccepted
             THEN Str(IdOf(prefixId, propValue[1]))
             ELSE IF propDefault = Undefined
                  THEN Str(prefixId \o "-center-center")
                  ELSE IF propDefault \in StrAccepted
                       THEN Str(IdOf(prefixId, propDefault[1]))
                       ELSE Undefined

C10_Witness ==
    /\ event = "mount"
    /\ prefixId = "abc"
    /\ propValue = Str("top right")
    /\ propDefault = Str("bottom left")
    /\ activeId = Str("abc-top-right")

\* The control runs in controlled mode: the caller's value is accepted.
IsControlled == propValue \in StrAccepted

\* The identifier of the caller's value, read off the grid.
ValueId == Str(IdOf(prefixId, propValue[1]))

\* The identifiers of the 9 rendered cells, read off the grid.
RenderedIds == {Str(IdOf(prefixId, c)) : c \in Canonical}

\* The identifier activated last decodes to a defined value.
Decodable(id) == getItemValue(prefixId, id) # Undefined

\* C11: in uncontrolled mode the activation of an identifier whose decoded
\* value is defined sends onChange that decoded value and makes the
\* identifier the active one; it stays the active one through renders and
\* value changes that leave the control uncontrolled, until the next
\* activation.
C11_UncontrolledActivation ==
    [][(mounted /\ propValue' \notin StrAccepted)
        => /\ (event' = "activate" /\ Decodable(activated'[1]))
                => /\ activeId' = activated'[1]
                   /\ emitted' = <<getItemValue(prefixId, activated'[1])>>
           /\ event' # "activate" => activeId' = activeId]_vars

C11_Witness ==
    /\ event = "render"
    /\ prefixId = "abc"
    /\ propValue = Undefined
    /\ propDefault = Str("top right")
    /\ activated = <<Str("abc-bottom-right")>>
    /\ activeId = Str("abc-bottom-right")

\* C12: in controlled mode the activation of a cell sends onChange the
\* decoded value and leaves the active identifier the identifier of the
\* caller's value, which it is in every state of controlled mode.
C12_ControlledActivation ==
    (mounted /\ IsControlled)
        => /\ activeId = ValueId
           /\ (event = "activate" /\ Decodable(activated[1]))
                => emitted = <<getItemValue(prefixId, activated[1])>>

C12_Witness ==
    /\ event = "activate"
    /\ prefixId = "abc"
    /\ propValue = Str("top right")
    /\ activated = <<Str("abc-bottom-left")>>
    /\ emitted = <<Str("bottom left")>>
    /\ activeId = Str("abc-top-right")

\* C13: the activation of an identifier whose decoded value is undefined
\* (unknown, absent, or built with another prefix) sends onChange nothing
\* and changes neither the active identifier nor the props, in controlled
\* and in uncontrolled mode.
C13_InvalidActivationIgnored ==
    [][(mounted /\ event' = "activate" /\ ~Decodable(activated'[1]))
        => /\ emitted' = <<>>
           /\ UNCHANGED <<activeId, propValue, propDefault, mounted>>]_vars

C13_Witness ==
    /\ event = "activate"
    /\ prefixId = "abc"
    /\ propValue = Undefined
    /\ propDefault = Undefined
    /\ activated = <<Str("zz-top-left")>>
    /\ emitted = <<>>
    /\ activeId = Str("abc-center-center")

C16_Notifications ==
    /\ \A i \in 1..Len(emitted) : emitted[i] \in StrCanonical
    /\ (event = "activate" /\ activated[1] \in RenderedIds)
         => \E cell \in Canonical :
               /\ activated[1] = Str(IdOf(prefixId, cell))
               /\ emitted = <<Str(cell)>>

C16_Witness ==
    /\ event = "activate"
    /\ prefixId = "m-0"
    /\ activated = <<Str("m-0-center-left")>>
    /\ emitted = <<Str("center left")>>

\* C17: in controlled mode, when the caller's value changes from one
\* accepted value to another, the active identifier is the identifier of
\* the new value, whatever the old value and the earlier activations.
C17_ControlledValueChange ==
    [][(/\ mounted
        /\ event' = "setValue"
        /\ propValue \in StrAccepted
        /\ propValue' \in StrAccepted
        /\ propValue' # propValue)
        => activeId' = Str(IdOf(prefixId, propValue'[1]))]_vars

C17_Witness ==
    /\ event = "setValue"
    /\ prefixId = "abc"
    /\ propValue = Str("bottom-center")
    /\ activated = <<Str("abc-top-left")>>
    /\ activeId = Str("abc-bottom-center")

\* C18: the right-to-left flag never changes, and whatever it is, the cell
\* identifiers, the grid indices, the notifications and the next active
\* identifier are the ones determined by the prefix, the props and the
\* activated identifier alone; so two runs that differ in the flag only
\* agree on all of them.
C18_RtlIndependent ==
    /\ [](\A r \in 1..3, c \in 1..3 :
            /\ CellId(prefixId, Cell(r, c, " "))
                 = Str(prefixId \o "-" \o Cell(r, c, "-"))
            /\ getAlignmentIndex(Str(Cell(r, c, " ")))
                 = Num(3 * (r - 1) + (c - 1)))
    /\ [][
       /\ rtl' = rtl
       /\ (mounted /\ event' = "activate")
            => /\ emitted' = IF Decodable(activated'[1])
                             THEN <<getItemValue(prefixId, activated'[1])>>
                             ELSE <<>>
               /\ activeId' = IF ~IsControlled /\ Decodable(activated'[1])
                              THEN activated'[1]
                              ELSE activeId
       /\ (mounted /\ event' \in {"setValue", "render"})
            => activeId' = IF propValue' \in StrAccepted
                           THEN Str(IdOf(prefixId, propValue'[1]))
                           ELSE activeId]_vars

C18_Witness ==
    /\ rtl
    /\ event = "activate"
    /\ prefixId = "abc"
    /\ propValue = Null
    /\ activated = <<Str("abc-top-left")>>
    /\ emitted = <<Str("top left")>>
    /\ activeId = Str("abc-top-left")
    /\ ActiveCells = {"top left"}

\* C19 as stated: once the control is initialized, only the activation
\* handler changes the active identifier.
C19_AsStated ==
    [][(mounted /\ activeId' # activeId) => event' = "activate"]_vars

\* C19 amended: once the control is initialized, the active identifier is
\* changed only by the activation handler in uncontrolled mode and by the
\* caller supplying another accepted value, which makes it the identifier
\* of that value; a render with unchanged props leaves it unchanged.
C19_Writers ==
    [][mounted
        => /\ activeId' # activeId
                => \/ event' = "activate" /\ ~IsControlled
                   \/ /\ event' = "setValue"
                      /\ propValue' \in StrAccepted
                      /\ activeId' = Str(IdOf(prefixId, propValue'[1]))
           /\ event' = "render" => activeId' = activeId]_vars

C19_Witness ==
    /\ event = "render"
    /\ prefixId = "abc"
    /\ propValue = Str("diagonal")
    /\ propDefault = Str("bottom left")
    /\ activated = <<Str("abc-top-right")>>
    /\ activeId = Str("abc-top-right")

\* C20: an activation decodes the identifier first: the notification it
\* sends is the decoded value, the active identifier it leaves is the old
\* one or the activated one, and when the decoded value is undefined
\* nothing is sent and no variable of the control but the record of the
\* event changes.
C20_DecodeFirst ==
    [][(mounted /\ event' = "activate")
        => LET nextValue == getItemValue(prefixId, activated'[1])
           IN  /\ Len(activated') = 1
               /\ IF nextValue = Undefined
                  THEN /\ emitted' = <<>>
                       /\ UNCHANGED <<prefixId, mounted, propValue,
                                      propDefault, rtl, activeId>>
                  ELSE /\ emitted' = <<nextValue>>
                       /\ activeId' \in {activeId, activated'[1]}
                       /\ UNCHANGED <<prefixId, mounted, propValue,
                                      propDefault, rtl>>]_vars

C20_Witness ==
    /\ event = "activate"
    /\ prefixId = "m-0"
    /\ propValue = Undefined
    /\ propDefault = Str("bottom left")
    /\ activated = <<Undefined>>
    /\ emitted = <<>>
    /\ activeId = Str("m-0-bottom-left")

\* C21: a value that is supplied but not accepted by normalize gives no
\* activeId option (getItemId returns undefined for it), so the control is
\* uncontrolled: the active identifier is initialized from defaultValue
\* ("center center" when omitted) and the activation of a decodable
\* identifier makes that identifier the active one.
C21_InvalidValueUncontrolled ==
    /\ []((mounted /\ propValue # Undefined /\ propValue \notin StrAccepted)
            => /\ getItemId(prefixId, propValue) = Undefined
               /\ ~Controlled(StoreOptions(prefixId, propValue,
                                           propDefault, rtl))
               /\ event = "mount"
                    => activeId =
                         IF propDefault = Undefined
                         THEN Str(prefixId \o "-center-center")
                         ELSE IF propDefault \in StrAccepted
                              THEN Str(IdOf(prefixId, propDefault[1]))
                              ELSE Undefined)
    /\ [][(/\ mounted
           /\ propValue # Undefined
           /\ propValue \notin StrAccepted
           /\ event' = "activate"
           /\ activated'[1] \in RenderedIds)
            => activeId' = activated'[1]]_vars

C21_Witness ==
    /\ event = "activate"
    /\ prefixId = "abc"
    /\ propValue = Str("diagonal")
    /\ propDefault = Undefined
    /\ activated = <<Str("abc-top-left")>>
    /\ activeId = Str("abc-top-left")

\* C22: under Template the control starts with no value and the cell of
\* "center center" active; once one of the 9 cells has been activated, the
\* caller's value is the value of the cell activated last, the active
\* identifier is that cell's identifier and that cell alone is rendered
\* active.
C22_DefaultStory ==
    /\ (mounted /\ activated = <<>>)
         => /\ propValue = Undefined
            /\ activeId = Str(prefixId \o "-center-center")
            /\ ActiveCells = {"center center"}
    /\ (activated # <<>> /\ activated[1] \in RenderedIds)
         => \E cell \in Canonical :
               /\ activated[1] = Str(IdOf(prefixId, cell))
               /\ propValue = Str(cell)
               /\ activeId = activated[1]
               /\ ActiveCells = {cell}

C22_Witness ==
    /\ event = "activate"
    /\ prefixId = "abc"
    /\ activated = <<Str("abc-bottom-right")>>
    /\ emitted = <<Str("bottom right")>>
    /\ propValue = Str("bottom right")
    /\ activeId = Str("abc-bottom-right")

\* C23: under one prefix two accepted inputs get the same identifier from
\* getItemId iff they stand for the same canonical value; in particular
\* two distinct canonical values never get the same identifier.
C23_GetItemIdInjective ==
    (fn = "getItemId" /\ value \in StrAccepted)
        => /\ \A w \in StrAccepted :
                (getItemId(prefixId, w) = ret)
                    <=> (CanonicalOf(w[1]) = CanonicalOf(value[1]))
           /\ \A w \in StrCanonical \ {value} :
                value \in StrCanonical => getItemId(prefixId, w) # ret

C23_Witness ==
    /\ fn = "getItemId"
    /\ prefixId = "m-0"
    /\ value = Str("center")
    /\ ret = Str("m-0-center-center")
    /\ getItemId(prefixId, Str("center-center")) = ret
    /\ getItemId(prefixId, Str("center left")) # ret

\* The positions (from 0) of the points the icon rendered as active.
ActivePoints == {i \in 0..(Len(points) - 1) : points[i + 1].isActive}

\* C24: the icon renders 9 points in row-major order and marks as active
\* exactly the point at position getAlignmentIndex(value): the one point
\* at 3 * row + column for an accepted value, the point at 4 when value is
\* omitted, and no point for any other value.
C24_IconPoints ==
    fn = "AlignmentMatrixControlIcon"
        => /\ Len(points) = 9
           /\ \A r \in 1..3, c \in 1..3 :
                points[3 * (r - 1) + c].key = Cell(r, c, " ")
           /\ \A i \in 0..8 :
                points[i + 1].isActive
                    <=> (value # Undefined
                         /\ getAlignmentIndex(value) = Num(i))
                        \/ (value = Undefined /\ i = 4)
           /\ ActivePoints =
                IF value \in StrAccepted THEN {RowMajorIndex(value[1])}
                ELSE IF value = Undefined THEN {4}
                ELSE {}

C24_Witness ==
    /\ fn = "AlignmentMatrixControlIcon"
    /\ value = Str("bottom-left")
    /\ index = Num(6)
    /\ ActivePoints = {6}

\* The sibling the Remove item may select: the block before the first
\* block of the menu, else the block after it, else none.
SiblingOf(order, first) ==
    LET i == CHOOSE i \in 1..Len(order) : order[i] = first
    IN  IF i > 1 THEN order[i - 1]
        ELSE IF i < Len(order) THEN order[i + 1]
        ELSE NoBlock

\* C25: a click on Remove runs onClose, then onRemove, then the selection
\* update; the selection update calls __experimentalSelectBlock with the
\* sibling B of the first block (as it was before the removal) when the
\* callback was supplied, B exists, the first block was selected and B was
\* not; in every other case it calls nothing.
C25_RemoveSelection ==
    [][(removed' /\ ~removed)
        => LET first == clientIds.items[1]
               B == SiblingOf(blockOrder, first)
               selects == /\ selectBlockSupplied
                          /\ B # NoBlock
                          /\ first \in selectedBlockClientIds
                          /\ B \notin selectedBlockClientIds
           IN  calls' = << <<"onClose">>, <<"onRemove">> >>
                           \o (IF selects
                               THEN << <<"__experimentalSelectBlock", B>> >>
                               ELSE <<>>)]_vars

C25_Witness ==
    /\ removed
    /\ clientIds = [isArray |-> FALSE, items |-> <<"b">>]
    /\ blockOrder = <<"a", "c">>
    /\ selectedBlockClientIds = {"b"}
    /\ calls = << <<"onClose">>, <<"onRemove">>,
                  <<"__experimentalSelectBlock", "a">> >>

\* C28: a click on Duplicate runs onClose, then onDuplicate, and no select
\* call; with a select callback the selection update then waits for the
\* promise, and when it resolves calls the callback with the first id of a
\* non-empty list and nothing for an empty or absent result; without a
\* select callback nothing waits and the callback is never called.
C28_DuplicateSelection ==
    /\ [](~selectBlockSupplied
            => /\ pending = 0
               /\ \A i \in 1..Len(calls) :
                    calls[i][1] # "__experimentalSelectBlock")
    /\ [][/\ (menuOpen /\ ~menuOpen' /\ ~removed')
             => /\ calls' = << <<"onClose">>, <<"onDuplicate">> >>
                /\ pending' = IF selectBlockSupplied THEN pending + 1
                              ELSE pending
          /\ pending' < pending
             => LET ids == duplicated'[1].ids
                IN  calls' = calls \o
                      (IF duplicated'[1].present /\ Len(ids) > 0
                       THEN << <<"__experimentalSelectBlock", ids[1]>> >>
                       ELSE <<>>)]_vars

C28_Witness ==
    /\ selectBlockSupplied
    /\ pending = 0
    /\ duplicated = <<[present |-> TRUE, ids |-> <<"e", "d">>]>>
    /\ calls = << <<"onClose">>, <<"onDuplicate">>,
                  <<"__experimentalSelectBlock", "e">> >>

\* The handler h resumes after its await in this step.
Resumed(h) == running[h].pc = "awaiting" /\ running'[h].pc = "done"

ViewOf(h) ==
    IF h = "openStyleBook" THEN "style-book" ELSE "global-styles-revisions"

SetsView(call) == call[1] = "setEditorCanvasContainerView"

\* C26: openStyleBook and openRevisions set the editor canvas container view
\* ('style-book', 'global-styles-revisions') only in the step that resumes
\* them, which happens only after both setCanvasMode( 'edit' ) and
\* openGeneralSidebar( 'edit-site/global-styles' ) have settled, in
\* whatever order; openStyleBook then closes the list view, after setting
\* the view.
C26_ViewAfterBothSettle ==
    [][/\ \A h \in {"openStyleBook", "openRevisions"} :
              Resumed(h) =>
                  /\ {"setCanvasMode", "openGeneralSidebar"} \subseteq Settled(h)
                  /\ dispatched'[1] = <<"setEditorCanvasContainerView", ViewOf(h)>>
                  /\ editorCanvasContainerView' = ViewOf(h)
                  /\ h = "openStyleBook" =>
                        /\ dispatched'[2] = <<"setIsListViewOpened", "false">>
                        /\ ~isListViewOpened'
                  /\ h = "openRevisions" =>
                        /\ Len(dispatched') = 1
                        /\ isListViewOpened' = isListViewOpened
       /\ (running' # running
             /\ \E i \in 1..Len(dispatched') : SetsView(dispatched'[i]))
            => \E h \in {"openStyleBook", "openRevisions"} : Resumed(h)
      ]_vars

\* Both handlers have resumed, each after the two promises settled in a
\* different order.
C26_Witness ==
    /\ running["openStyleBook"] =
          [pc |-> "done", settled |-> <<"openGeneralSidebar", "setCanvasMode">>]
    /\ running["openRevisions"] =
          [pc |-> "done", settled |-> <<"setCanvasMode", "openGeneralSidebar">>]
    /\ editorCanvasContainerView = "style-book"
    /\ ~isListViewOpened
    /\ Len(dispatched) = 2

\* C27: the footer is rendered only when the revisions count is greater
\* than zero, the revisions are not loading and the newest revision has a
\* modified timestamp; with a count of zero, which is also the count when
\* there is no global styles id, no record or no version-history link,
\* there is no footer.
C27_FooterOnlyWithRevisions ==
    /\ footer =>
          /\ globalStyles.missing = ""
          /\ globalStyles.count > 0
          /\ ~isLoadingRevisions
          /\ revisions.defined
          /\ Len(revisions.items) > 0
          /\ ~IsFalsy(revisions.items[1].modified)
    /\ (globalStyles.missing # "" \/ globalStyles.count = 0) => ~footer

\* The revisions have loaded with a modified newest revision, and only the
\* missing record, hence the count of zero, keeps the footer away.
C27_Witness ==
    /\ ~footer
    /\ globalStyles.missing = "record"
    /\ ~isLoadingRevisions
    /\ revisions.defined
    /\ Len(revisions.items) > 0
    /\ ~IsFalsy(revisions.items[1].modified)

\* The footer is rendered.
FooterRendered == footer /\ globalStyles.count > 0

====
